---- MODULE Spec2Model ----
(***************************************************************************)
(* A model of the wxPython text editors of TraitsUI                        *)
(*   enthought/traits/ui/wx/text_editor.py  (SimpleEditor,                 *)
(*                                            ReadonlyTextEditor)          *)
(*   enthought/traits/ui/wx/image_text.py   (ImageText)                    *)
(*                                                                         *)
(* Three independent parts of the program are modelled, each with its own  *)
(* group of variables, under four specifications:                          *)
(*   SpecPointer  the pointer handlers of the read-only text editor        *)
(*   SpecLayout   the themed text control ImageText                        *)
(*   SpecForm     editable text editors sharing the error counter of a ui  *)
(*   SpecEditor   one editable text editor in every configuration          *)
(* The sources are Python 2: "/" on integers is floor division.            *)
(***************************************************************************)
EXTENDS Integers, Sequences, FiniteSets

VARIABLES
    \* ---- ReadonlyTextEditor -------------------------------------------
    view,          \* factory.view is not None
    bound,         \* the four pointer handlers are bound to the control
    _in_window,    \* self._in_window
    _down,         \* self._down
    captures,      \* depth of the toolkit's capture stack held by the control
    bg,            \* colour last given to control.SetBackgroundColour
    parentBg,      \* control.GetParent().GetBackgroundColour()
    painted,       \* the background colour at the last control.Refresh()
    activations,   \* number of object.edit_traits( view = ... ) calls
    trace,         \* the events delivered to the control so far
    last,          \* the last thing that happened
    \* ---- ImageText ----------------------------------------------------
    theme,         \* self._theme with self._image_slice = theme.image_slice
    label,         \* GetLabel(): a sequence of characters
    font,          \* GetFont()
    _text_size,    \* self._text_size: None or (tdx, tdy, descent, leading)
    _fill,         \* self._fill: None, True or False
    client,        \* GetClientSizeTuple()
    minSize,       \* the size last given to SetMinSize
    textBounds,    \* the value last returned by _get_text_bounds
    lop,           \* the last operation on the control
    \* ---- SimpleEditor / CustomEditor (one entry per editor of the ui) --
    factory,       \* self.factory and the class's base_style
    trait,         \* the type of the object trait the editor is bound to
    control,       \* self.control.GetValue(): the text in the control
    value,         \* self.value: the value of the object trait
    _no_update,    \* self._no_update
    _error,        \* self._error is not None
    errorColor,    \* the background given by set_error_state
    errors,        \* self.ui.errors, shared by the editors of the ui
    failed,        \* the editors whose error() has run so far
    out,           \* what the last handler did
    \* ---- the dialog of test_tuple_editor.py ---------------------------
    dialog         \* the dialog editing a tuple: its fields are the editors

pointerVars == <<view, bound, _in_window, _down, captures, bg, parentBg,
                 painted, activations, trace, last>>

layoutVars == <<theme, label, font, _text_size, _fill, client, minSize,
                textBounds, lop>>

formVars == <<factory, trait, control, value, _no_update, _error, errorColor,
              errors, failed, out, dialog>>

vars == <<pointerVars, layoutVars, formVars>>

OtherThanPointer == UNCHANGED <<layoutVars, formVars>>
OtherThanLayout == UNCHANGED <<pointerVars, formVars>>
OtherThanForm == UNCHANGED <<pointerVars, layoutVars>>

(***************************************************************************)
(* Bounds                                                                  *)
(***************************************************************************)
MaxEvents == 5
\* Theme margins range over 0..MaxMargin, the outer frame margins over the
\* multiples of OuterUnit up to OuterUnit * MaxMargin.
MaxMargin == 2
OuterUnit == 12
\* The number of text editors on the form.
NumEditors == 2

\* Python's None, where the model needs a value for it.
None == "None"

\* self._text_size is None.
NoSize == <<>>

(***************************************************************************)
(* ReadonlyTextEditor                                                      *)
(***************************************************************************)
HoverColor == "LIGHT_GREY"
DownColor == "WHITE"

\* The background colours the parent window can have; the parent's theme may
\* change at any time.
ParentColours == {"WindowColor", "ThemeColor"}

\* The colour _set_color picks for the flags it reads.
StateColor(inw, dn, parent) ==
    IF ~inw THEN parent
    ELSE IF dn THEN DownColor
    ELSE HoverColor

\* _set_color: control.SetBackgroundColour( color ); control.Refresh(),
\* reading the flags inw and dn.
_set_color(inw, dn) ==
    /\ bg' = StateColor(inw, dn, parentBg)
    /\ painted' = StateColor(inw, dn, parentBg)

\* An event is delivered to the control and recorded.
Deliver(ev) ==
    /\ Len(trace) < MaxEvents
    /\ trace' = Append(trace, ev)
    /\ last' = ev

\* The ImageText part, at rest in the other specifications.
LayoutIdle ==
    /\ theme = None /\ label = <<>> /\ font = None /\ _text_size = NoSize
    /\ _fill = None /\ client = <<0, 0>> /\ minSize = <<0, 0>>
    /\ textBounds = <<0, 0, 0, 0>> /\ lop = None

\* No dialog is shown.
NoDialog == [open |-> FALSE, before |-> <<>>, entered |-> <<>>,
             focusLost |-> FALSE, result |-> <<>>]

\* The editable editors, absent in the other specifications.
FormIdle ==
    /\ factory = <<>> /\ trait = <<>> /\ control = <<>> /\ value = <<>>
    /\ _no_update = <<>> /\ _error = <<>> /\ errorColor = <<>>
    /\ errors = 0 /\ failed = {} /\ out = None /\ dialog = NoDialog

\* ReadonlyTextEditor.init: the handlers are bound only when the factory has
\* a view.  _in_window and _down are unset (None) after construction.
InitPointer ==
    /\ LayoutIdle
    /\ FormIdle
    /\ view \in BOOLEAN
    /\ bound = view
    /\ _in_window = FALSE
    /\ _down = FALSE
    /\ captures = 0
    /\ bg = "ControlDefault"
    /\ parentBg \in ParentColours
    /\ painted = None
    /\ activations = 0
    /\ trace = <<>>
    /\ last = "init"

_enter_window ==
    /\ OtherThanPointer
    /\ bound
    /\ Deliver("enter")
    /\ _in_window' = TRUE
    /\ _set_color(TRUE, _down)
    /\ UNCHANGED <<view, bound, _down, captures, parentBg, activations>>

_leave_window ==
    /\ OtherThanPointer
    /\ bound
    /\ Deliver("leave")
    /\ _in_window' = FALSE
    /\ _set_color(FALSE, _down)
    /\ UNCHANGED <<view, bound, _down, captures, parentBg, activations>>

\* control.CaptureMouse() pushes the control on the toolkit's capture stack:
\* the mouse must be released as many times as it was captured.
_left_down ==
    /\ OtherThanPointer
    /\ bound
    /\ Deliver("down")
    /\ captures' = captures + 1
    /\ _down' = TRUE
    /\ _set_color(_in_window, TRUE)
    /\ UNCHANGED <<view, bound, _in_window, parentBg, activations>>

\* A faulty variant of _left_up: the view is opened wherever the pointer is.
LeftUpAlwaysActivates ==
    /\ OtherThanPointer
    /\ bound
    /\ Deliver("up")
    /\ _set_color(_in_window, _down)
    /\ IF ~_down
       THEN UNCHANGED <<_down, captures, activations>>
       ELSE /\ captures' = IF captures > 0 THEN captures - 1 ELSE 0
            /\ _down' = FALSE
            /\ activations' = activations + 1
    /\ UNCHANGED <<view, bound, _in_window, parentBg>>

\* A faulty variant of _left_up: the view is opened on a button-up inside the
\* control whether or not a press is in progress.
LeftUpActivatesUnpressed ==
    /\ OtherThanPointer
    /\ bound
    /\ Deliver("up")
    /\ _set_color(_in_window, _down)
    /\ activations' = IF _in_window THEN activations + 1 ELSE activations
    /\ IF ~_down
       THEN UNCHANGED <<_down, captures>>
       ELSE /\ captures' = IF captures > 0 THEN captures - 1 ELSE 0
            /\ _down' = FALSE
    /\ UNCHANGED <<view, bound, _in_window, parentBg>>

\* _left_up: the colour is set first, from the flags as they are on entry;
\* control.ReleaseMouse() pops one capture.
_left_up ==
    /\ OtherThanPointer
    /\ bound
    /\ Deliver("up")
    /\ _set_color(_in_window, _down)
    /\ IF ~_down
       THEN UNCHANGED <<_down, captures, activations>>
       ELSE /\ captures' = IF captures > 0 THEN captures - 1 ELSE 0
            /\ _down' = FALSE
            /\ activations' = IF _in_window THEN activations + 1
                                            ELSE activations
    /\ UNCHANGED <<view, bound, _in_window, parentBg>>

\* The control loses the focus: ReadonlyTextEditor.init binds no handler for
\* it, so no code of the editor runs.
KillFocus ==
    /\ OtherThanPointer
    /\ Deliver("kill_focus")
    /\ UNCHANGED <<view, bound, _in_window, _down, captures, bg, parentBg,
                   painted, activations>>

\* ReadonlyTextEditor.dispose: the four handlers are unbound.
dispose ==
    /\ OtherThanPointer
    /\ bound
    /\ Deliver("dispose")
    /\ bound' = FALSE
    /\ UNCHANGED <<view, _in_window, _down, captures, bg, parentBg, painted,
                   activations>>

\* The parent's background colour changes (a theme change).
ParentThemeChange ==
    /\ OtherThanPointer
    /\ parentBg' \in ParentColours \ {parentBg}
    /\ last' = "theme"
    /\ UNCHANGED <<view, bound, _in_window, _down, captures, bg, painted,
                   activations, trace>>

NextPointer ==
    \/ _enter_window
    \/ _leave_window
    \/ _left_down
    \/ _left_up
    \/ KillFocus
    \/ dispose
    \/ ParentThemeChange

SpecPointer == InitPointer /\ [][NextPointer]_vars

(***************************************************************************)
(* ImageText                                                               *)
(***************************************************************************)
Max(a, b) == IF a >= b THEN a ELSE b

OuterFields == {"left", "right", "top", "bottom"}
InnerFields == {"xleft", "xright", "xtop", "xbottom"}
ContentFields == {"c_left", "c_right", "c_top", "c_bottom"}
LabelFields == {"l_left", "l_top"}
MarginFields == OuterFields \cup InnerFields \cup ContentFields \cup LabelFields

\* The value of margin n at scale k: the outer frame margins are the larger.
MarginValue(n, k) == IF n \in OuterFields THEN OuterUnit * k ELSE k

\* A theme: the image slice's margins, the content box, the label offset and
\* the alignment, all non-negative integers.
MkTheme(m, a) ==
    [slice |-> [left |-> m["left"], right |-> m["right"],
                top |-> m["top"], bottom |-> m["bottom"],
                xleft |-> m["xleft"], xright |-> m["xright"],
                xtop |-> m["xtop"], xbottom |-> m["xbottom"]],
     content |-> [left |-> m["c_left"], right |-> m["c_right"],
                  top |-> m["c_top"], bottom |-> m["c_bottom"]],
     label |-> [left |-> m["l_left"], top |-> m["l_top"]],
     alignment |-> a]

Alignments == {"left", "center", "right"}

\* The margins of the themes: none, one, or all of them different from 0.
MarginShapes == {{}} \cup {{n} : n \in MarginFields} \cup {MarginFields}

MarginMaps ==
    {[n \in MarginFields |-> IF n \in S THEN MarginValue(n, k) ELSE 0] :
        S \in MarginShapes, k \in 1..MaxMargin}

Themes == {MkTheme(m, a) : m \in MarginMaps, a \in Alignments}

\* Labels are sequences of characters; fonts are named.
Labels == {<<>>, <<" ", " ">>, <<"M">>, <<"i", "M">>}
Fonts == {"small", "large"}
ClientWidths == {0, 1, 30}
ClientHeights == {0, 3, 10}

\* label.strip() == '': every character is white space.
IsBlank(text) == \A i \in 1..Len(text) : text[i] = " "

\* GetFullTextExtent( text ) in font f: (width, height, descent, leading).
\* The toolkit measures; here a character's width depends on the character
\* and the font, the height on the font.
CharWidth(c, f) ==
    IF f = "small" THEN (IF c = "M" THEN 2 ELSE 1)
    ELSE (IF c = "M" THEN 10 ELSE 3)

RECURSIVE TextWidth(_, _)
TextWidth(text, f) ==
    IF text = <<>> THEN 0
    ELSE CharWidth(Head(text), f) + TextWidth(Tail(text), f)

GetFullTextExtent(text, f) ==
    <<TextWidth(text, f), IF f = "small" THEN 1 ELSE 4,
      IF f = "small" THEN 0 ELSE 1, 0>>

\* A faulty variant of _get_text_size: a blank label is measured as it is.
GetTextSizeMeasuresLabel(cache, text, f) ==
    IF cache = NoSize THEN GetFullTextExtent(text, f) ELSE cache

\* _get_text_size: the cached metrics, or those of the label ("M" when the
\* stripped label is empty) measured in the current font.
_get_text_size(cache, text, f) ==
    IF cache = NoSize
    THEN GetFullTextExtent(IF IsBlank(text) THEN <<"M">> ELSE text, f)
    ELSE cache

\* A faulty variant of GetMinSize: the breathing room is 4 across and 8 down.
GetMinSizeSwappedRoom(th, ts) ==
    LET tdx == ts[1] + (th.content.left + th.content.right)
        tdy == ts[2] + (th.content.top + th.content.bottom)
        slice == th.slice
    IN <<Max(slice.left + slice.right,
             slice.xleft + slice.xright + tdx + 4),
         Max(slice.top + slice.bottom,
             slice.xtop + slice.xbottom + tdy + 8)>>

\* A faulty variant of GetMinSize: the outer frame margins are not considered.
GetMinSizeInnerOnly(th, ts) ==
    LET tdx == ts[1] + (th.content.left + th.content.right)
        tdy == ts[2] + (th.content.top + th.content.bottom)
        slice == th.slice
    IN <<slice.xleft + slice.xright + tdx + 8,
         slice.xtop + slice.xbottom + tdy + 4>>

\* GetMinSize, given the text size _get_text_size returned.
GetMinSize(th, ts) ==
    LET tdx == ts[1] + (th.content.left + th.content.right)
        tdy == ts[2] + (th.content.top + th.content.bottom)
        slice == th.slice
    IN <<Max(slice.left + slice.right,
             slice.xleft + slice.xright + tdx + 8),
         Max(slice.top + slice.bottom,
             slice.xtop + slice.xbottom + tdy + 4)>>

\* A faulty variant of _get_text_bounds: the vertical division truncates toward zero.
TruncDiv2(n) == IF n >= 0 THEN n \div 2 ELSE -((-n) \div 2)

GetTextBoundsTruncating(th, ts, wd) ==
    LET tdx == ts[1]
        tdy == ts[2]
        wdx == wd[1]
        wdy == wd[2]
        slice == th.slice
        content == th.content
        ty == TruncDiv2(wdy + slice.xtop + content.top - slice.xtop
                            - slice.xbottom - tdy)
        tx == IF th.alignment = "left"
              THEN slice.xleft + content.left
              ELSE IF th.alignment = "center"
              THEN slice.xleft + content.left + 4
                       + (((wdx - slice.xleft - slice.xright) - tdx) \div 2)
              ELSE wdx - tdx - slice.xright - content.right
    IN <<tx + th.label.left, ty + th.label.top, tdx, tdy>>

\* A faulty variant of _get_text_bounds: centred text loses its 4 pixel bias.
GetTextBoundsNoBias(th, ts, wd) ==
    LET tdx == ts[1]
        tdy == ts[2]
        wdx == wd[1]
        wdy == wd[2]
        slice == th.slice
        content == th.content
        ty == (wdy + slice.xtop + content.top - slice.xtop
                   - slice.xbottom - tdy) \div 2
        tx == IF th.alignment = "left"
              THEN slice.xleft + content.left
              ELSE IF th.alignment = "center"
              THEN slice.xleft + content.left
                       + (((wdx - slice.xleft - slice.xright) - tdx) \div 2)
              ELSE wdx - tdx - slice.xright - content.right
    IN <<tx + th.label.left, ty + th.label.top, tdx, tdy>>

\* A faulty variant of _get_text_bounds: right-aligned text is placed without
\* regard to its width.
GetTextBoundsRightIgnoresText(th, ts, wd) ==
    LET tdx == ts[1]
        tdy == ts[2]
        wdx == wd[1]
        wdy == wd[2]
        slice == th.slice
        content == th.content
        ty == (wdy + slice.xtop + content.top - slice.xtop
                   - slice.xbottom - tdy) \div 2
        tx == IF th.alignment = "left"
              THEN slice.xleft + content.left
              ELSE IF th.alignment = "center"
              THEN slice.xleft + content.left + 4
                       + (((wdx - slice.xleft - slice.xright) - tdx) \div 2)
              ELSE wdx - slice.xright - content.right
    IN <<tx + th.label.left, ty + th.label.top, tdx, tdy>>

\* _get_text_bounds, given the text size _get_text_size returned and the
\* client size.  Python 2 integer "/" rounds toward minus infinity, as \div.
_get_text_bounds(th, ts, wd) ==
    LET tdx == ts[1]
        tdy == ts[2]
        wdx == wd[1]
        wdy == wd[2]
        slice == th.slice
        content == th.content
        ty == (wdy + slice.xtop + content.top - slice.xtop
                   - slice.xbottom - tdy) \div 2
        tx == IF th.alignment = "left"
              THEN slice.xleft + content.left
              ELSE IF th.alignment = "center"
              THEN slice.xleft + content.left + 4
                       + (((wdx - slice.xleft - slice.xright) - tdx) \div 2)
              ELSE wdx - tdx - slice.xright - content.right
    IN <<tx + th.label.left, ty + th.label.top, tdx, tdy>>

\* A faulty variant of _refresh: the cached metrics are kept.
RefreshKeepsCache(text, f) ==
    LET ts == _get_text_size(_text_size, text, f)
    IN /\ _fill' = IF _fill = "True" THEN "False" ELSE _fill
       /\ _text_size' = ts
       /\ minSize' = GetMinSize(theme, ts)
       /\ textBounds' = _get_text_bounds(theme, ts, client)

\* _refresh, once the label is text and the font is f: the cache is emptied,
\* the minimum size is set from fresh metrics and the text rectangle is
\* refreshed.
_refresh(text, f) ==
    LET ts == _get_text_size(NoSize, text, f)
    IN /\ _fill' = IF _fill = "True" THEN "False" ELSE _fill
       /\ _text_size' = ts
       /\ minSize' = GetMinSize(theme, ts)
       /\ textBounds' = _get_text_bounds(theme, ts, client)

\* The read-only editor part, at rest in the other specifications.
PointerIdle ==
    /\ view = FALSE /\ bound = FALSE /\ _in_window = FALSE /\ _down = FALSE
    /\ captures = 0 /\ bg = "ControlDefault" /\ parentBg = "WindowColor"
    /\ painted = None /\ activations = 0 /\ trace = <<>> /\ last = "init"

\* ImageText.__init__: SetLabel( text ) on a control not yet sized, then the
\* control takes its minimum size.
InitLayout ==
    /\ PointerIdle
    /\ FormIdle
    /\ theme \in Themes
    /\ label \in Labels
    /\ font = "small"
    /\ _fill = None
    /\ _text_size = _get_text_size(NoSize, label, font)
    /\ minSize = GetMinSize(theme, _text_size)
    /\ textBounds = _get_text_bounds(theme, _text_size, <<0, 0>>)
    /\ client = minSize
    /\ lop = "init"

SetLabel(text) ==
    /\ OtherThanLayout
    /\ label' = text
    /\ _refresh(text, font)
    /\ lop' = "SetLabel"
    /\ UNCHANGED <<theme, font, client>>

SetFont(f) ==
    /\ OtherThanLayout
    /\ font' = f
    /\ _refresh(label, f)
    /\ lop' = "SetFont"
    /\ UNCHANGED <<theme, label, client>>

\* _on_paint: the text is drawn at the position _get_text_bounds returns.
_on_paint ==
    LET ts == _get_text_size(_text_size, label, font)
    IN /\ OtherThanLayout
       /\ _fill' = "True"
       /\ _text_size' = ts
       /\ textBounds' = _get_text_bounds(theme, ts, client)
       /\ lop' = "paint"
       /\ UNCHANGED <<theme, label, font, client, minSize>>

\* The toolkit gives the control another client size.
Resize(w, h) ==
    /\ OtherThanLayout
    /\ client' = <<w, h>>
    /\ client' # client
    /\ lop' = "resize"
    /\ UNCHANGED <<theme, label, font, _text_size, _fill, minSize, textBounds>>

NextLayout ==
    \/ \E text \in Labels : SetLabel(text)
    \/ \E f \in Fonts : SetFont(f)
    \/ _on_paint
    \/ \E w \in ClientWidths, h \in ClientHeights : Resize(w, h)

SpecLayout == InitLayout /\ [][NextLayout]_vars

(***************************************************************************)
(* SimpleEditor / CustomEditor                                             *)
(***************************************************************************)
\* Values of object traits: text, the integer a text of digits denotes, or
\* a list holding a text.
StrVal(t) == [kind |-> "str", s |-> t]
IntVal(t) == [kind |-> "int", s |-> t]
ListVal(t) == [kind |-> "list", s |-> t]

\* No value: the handler has not come to a write.
NoValue == [kind |-> "none", s |-> ""]

Digits == {"4", "6"}
\* The texts a user types.
TypedTexts == {"4", "x"}

\* factory.evaluate: the identity (_Identity, the default), int, which
\* raises on a text that is not a number, or a function giving a list, which
\* cannot be hashed.
EvaluateRaises(ev, t) == ev = "int" /\ t \notin Digits
Evaluate(ev, t) ==
    IF ev = "identity" THEN StrVal(t)
    ELSE IF ev = "list" THEN ListVal(t)
    ELSE IntVal(t)

\* factory.mapping: a dictionary with text keys.
NoMapping == [v \in {} |-> v]
Mappings == {NoMapping, [v \in {StrVal("x")} |-> IntVal("6")]}

\* hash( v ) succeeds.
Hashable(v) == v.kind \in {"str", "int"}

\* The values the object trait accepts; any other raises TraitError.
Accepts(tr, v) ==
    \/ tr = "Any"
    \/ tr = "Int" /\ v.kind = "int"
    \/ tr = "Str" /\ v.kind = "str"

\* The values an object trait of type tr can hold.
TraitValues(tr) ==
    {v \in {StrVal(t) : t \in Digits \cup TypedTexts} \cup {IntVal(t) : t \in Digits} :
        Accepts(tr, v)}

\* self.str_value: the text of the object trait's value.
str_value(v) == IF v.kind = "list" THEN "[" \o v.s \o "]" ELSE v.s

\* Whether the control is multi-line, from base_style and the factory.
MultiLineStyle(f) ==
    LET style0 == f.base_style = "TE_MULTILINE"
        style1 == IF (~f.multi_line) \/ f.password THEN FALSE ELSE style0
    IN style1

\* A faulty variant of EnterBound: the style of the control is not considered.
EnterBoundAnyStyle(f) == f.enter_set

\* The handlers SimpleEditor.init binds to the control.
EnterBound(f) == f.enter_set /\ ~MultiLineStyle(f)
TextBound(f) == f.auto_set

\* A faulty variant of _get_user_value: a text that could not be evaluated is
\* not looked up in the mapping.
GetUserValueSkipsMapping(f, t) ==
    IF EvaluateRaises(f.evaluate, t) THEN StrVal(t)
    ELSE LET v == Evaluate(f.evaluate, t)
         IN IF Hashable(v)
            THEN (IF v \in DOMAIN f.mapping THEN f.mapping[v] ELSE v)
            ELSE v

\* _get_user_value for the text t in the control.
_get_user_value(f, t) ==
    LET v == IF EvaluateRaises(f.evaluate, t) THEN StrVal(t)
             ELSE Evaluate(f.evaluate, t)
    IN IF Hashable(v)
       THEN (IF v \in DOMAIN f.mapping THEN f.mapping[v] ELSE v)
       ELSE v

\* Editor.set_error_state( state ): the background shows the state.
set_error_state(ed, state) ==
    [ed EXCEPT !.errorColor = IF state THEN "ErrorColor" ELSE "OKColor"]

\* A faulty variant of error: every error is counted.
ErrorCountsEveryTime(ed) ==
    set_error_state([ed EXCEPT !.error = TRUE, !.errors = @ + 1,
                               !.rejected = TRUE], TRUE)

\* SimpleEditor.error
error(ed) ==
    set_error_state(
        IF ~ed.error
        THEN [ed EXCEPT !.error = TRUE, !.errors = @ + 1, !.rejected = TRUE]
        ELSE [ed EXCEPT !.rejected = TRUE],
        TRUE)

RECURSIVE update_object(_, _, _)
RECURSIVE update_editor(_, _, _)

\* The text-changed event of the control, delivered to the handler bound.
EvtTextHandler(f, tr, ed) ==
    IF TextBound(f) THEN update_object(f, tr, ed) ELSE ed

\* Editor._update_editor: the object trait changed; the editor is updated
\* unless the change is the editor's own.
_update_editor(f, tr, ed) ==
    IF ed.no_update THEN ed ELSE update_editor(f, tr, ed)

\* A faulty variant of the value setter: the flag is not set around the write.
SetValueUnflagged(f, tr, ed, v) ==
    IF Accepts(tr, v)
    THEN LET ed2 == [ed EXCEPT !.value = v, !.writes = @ + 1,
                               !.flagAtWrite = ed.no_update]
             ed3 == IF v # ed.value
                    THEN _update_editor(f, tr, [ed2 EXCEPT !.notified = @ + 1])
                    ELSE ed2
         IN [ed3 EXCEPT !.no_update = FALSE]
    ELSE [error(ed) EXCEPT !.exc = "TraitError", !.no_update = FALSE]

\* Editor's value setter (self.value = v): the flag is set before the object
\* trait is written and cleared after; a rejected value is reported to
\* error() and the TraitError raised again.
SetValue(f, tr, ed, v) ==
    LET ed1 == [ed EXCEPT !.no_update = TRUE]
    IN IF Accepts(tr, v)
       THEN LET ed2 == [ed1 EXCEPT !.value = v, !.writes = @ + 1,
                                   !.flagAtWrite = ed1.no_update]
                ed3 == IF v # ed.value
                       THEN _update_editor(f, tr,
                                           [ed2 EXCEPT !.notified = @ + 1])
                       ELSE ed2
            IN [ed3 EXCEPT !.no_update = FALSE]
       ELSE [error(ed1) EXCEPT !.exc = "TraitError", !.no_update = FALSE]

\* A faulty variant of update_object: the TraitError is not caught.
UpdateObjectUncaught(f, tr, ed) ==
    IF ~ed.no_update
    THEN LET uv == _get_user_value(f, ed.control)
             r == SetValue(f, tr, [ed EXCEPT !.attempts = @ + 1,
                                             !.tried = uv], uv)
         IN IF r.exc = "TraitError" THEN r
            ELSE set_error_state(
                     IF r.error
                     THEN [r EXCEPT !.error = FALSE, !.errors = @ - 1]
                     ELSE r,
                     FALSE)
    ELSE ed

\* SimpleEditor.update_object (the control exists while events arrive)
update_object(f, tr, ed) ==
    IF ~ed.no_update
    THEN LET uv == _get_user_value(f, ed.control)
             r == SetValue(f, tr, [ed EXCEPT !.attempts = @ + 1,
                                             !.tried = uv], uv)
         IN IF r.exc = "TraitError" THEN [r EXCEPT !.exc = "none"]
            ELSE set_error_state(
                     IF r.error
                     THEN [r EXCEPT !.error = FALSE, !.errors = @ - 1]
                     ELSE r,
                     FALSE)
    ELSE ed

\* A faulty variant of update_editor: the error is cleared without
\* set_error_state.
UpdateEditorKeepsColour(f, tr, ed) ==
    LET ed0 == [ed EXCEPT !.updates = @ + 1]
        unequal == _get_user_value(f, ed0.control) # ed0.value
        ed1 == IF unequal
               THEN LET a == [ed0 EXCEPT !.no_update = TRUE,
                                         !.control = str_value(ed0.value),
                                         !.sets = @ + 1]
                        b == EvtTextHandler(f, tr, a)
                    IN [b EXCEPT !.no_update = FALSE]
               ELSE ed0
    IN IF ed1.error
       THEN [ed1 EXCEPT !.error = FALSE, !.errors = @ - 1]
       ELSE ed1

\* The text-changed handler that took the editor from a to b wrote nothing
\* and left the error flag and the error counter alone.
Quiet(a, b) ==
    /\ b.value = a.value /\ b.writes = a.writes /\ b.attempts = a.attempts
    /\ b.error = a.error /\ b.errors = a.errors

\* A faulty variant of update_editor: the control is rewritten without the
\* flag being set.
UpdateEditorUnsuppressed(f, tr, ed) ==
    LET ed0 == [ed EXCEPT !.updates = @ + 1]
        unequal == _get_user_value(f, ed0.control) # ed0.value
        ed1 == IF unequal
               THEN LET a == [ed0 EXCEPT !.control = str_value(ed0.value),
                                         !.sets = @ + 1]
                        b == EvtTextHandler(f, tr, a)
                    IN [b EXCEPT !.no_update = FALSE,
                                 !.echoQuiet = @ /\ Quiet(a, b)]
               ELSE ed0
    IN IF ed1.error
       THEN set_error_state([ed1 EXCEPT !.error = FALSE, !.errors = @ - 1],
                            FALSE)
       ELSE ed1

\* SimpleEditor.update_editor: control.SetValue sends a text-changed event,
\* handled before SetValue returns.
update_editor(f, tr, ed) ==
    LET ed0 == [ed EXCEPT !.updates = @ + 1]
        unequal == _get_user_value(f, ed0.control) # ed0.value
        ed1 == IF unequal
               THEN LET a == [ed0 EXCEPT !.no_update = TRUE,
                                         !.control = str_value(ed0.value),
                                         !.sets = @ + 1]
                        b == EvtTextHandler(f, tr, a)
                    IN [b EXCEPT !.no_update = FALSE,
                                 !.echoQuiet = @ /\ Quiet(a, b)]
               ELSE ed0
    IN IF ed1.error
       THEN set_error_state([ed1 EXCEPT !.error = FALSE, !.errors = @ - 1],
                            FALSE)
       ELSE ed1

Editors == DOMAIN control

\* The editor e as the handlers see it, with nothing done yet.
Load(e) ==
    [control |-> control[e], value |-> value[e], no_update |-> _no_update[e],
     error |-> _error[e], errorColor |-> errorColor[e], errors |-> errors,
     writes |-> 0, notified |-> 0, sets |-> 0, updates |-> 0,
     exc |-> "none", rejected |-> FALSE, flagAtWrite |-> FALSE,
     attempts |-> 0, tried |-> NoValue, echoQuiet |-> TRUE]

\* The event ev was delivered to editor e, and its handler h has returned
\* leaving ed.
StoreEditor(e, ev, h, ed) ==
    /\ OtherThanForm
    /\ control' = [control EXCEPT ![e] = ed.control]
    /\ value' = [value EXCEPT ![e] = ed.value]
    /\ _no_update' = [_no_update EXCEPT ![e] = ed.no_update]
    /\ _error' = [_error EXCEPT ![e] = ed.error]
    /\ errorColor' = [errorColor EXCEPT ![e] = ed.errorColor]
    /\ errors' = ed.errors
    /\ failed' = IF ed.rejected THEN failed \cup {e} ELSE failed
    /\ out' = [event |-> ev, handler |-> h, editor |-> e,
               attempts |-> ed.attempts, tried |-> ed.tried,
               writes |-> ed.writes,
               notified |-> ed.notified, sets |-> ed.sets,
               updates |-> ed.updates,
               raised |-> ed.exc # "none", rejected |-> ed.rejected,
               flagAtWrite |-> ed.flagAtWrite, hadError |-> _error[e],
               echoQuiet |-> ed.echoQuiet]
    /\ UNCHANGED <<factory, trait>>

\* The same for an editor that is not a field of a dialog.
Store(e, ev, h, ed) ==
    /\ StoreEditor(e, ev, h, ed)
    /\ UNCHANGED dialog

\* No handler has run yet.
NoHandler ==
    [event |-> "init", handler |-> "init", editor |-> 0, attempts |-> 0,
     tried |-> NoValue, writes |-> 0, notified |-> 0, sets |-> 0,
     updates |-> 0, raised |-> FALSE, rejected |-> FALSE,
     flagAtWrite |-> FALSE, hadError |-> FALSE, echoQuiet |-> TRUE]

\* The factories of the editors of a form.
FormFactories ==
    [base_style : {"0"}, multi_line : {TRUE}, password : {FALSE},
     auto_set : BOOLEAN, enter_set : BOOLEAN, evaluate : {"int"},
     mapping : Mappings]

\* SimpleEditor.init for each editor of a form: the control shows the text
\* of the object trait's value; no error has been reported.
InitForm ==
    /\ PointerIdle
    /\ LayoutIdle
    /\ \E f \in FormFactories : factory = [e \in 1..NumEditors |-> f]
    /\ trait = [e \in 1..NumEditors |-> "Int"]
    /\ value \in [1..NumEditors -> TraitValues("Int")]
    /\ control = [e \in 1..NumEditors |-> str_value(value[e])]
    /\ _no_update = [e \in 1..NumEditors |-> FALSE]
    /\ _error = [e \in 1..NumEditors |-> FALSE]
    /\ errorColor = [e \in 1..NumEditors |-> "Default"]
    /\ errors = 0
    /\ failed = {}
    /\ out = NoHandler
    /\ dialog = NoDialog

\* The user changes the text in the control of editor e to t.
EvtText(e, t) ==
    /\ t # control[e]
    /\ Store(e, "text",
             IF TextBound(factory[e]) THEN "update_object" ELSE "none",
             EvtTextHandler(factory[e], trait[e],
                            [Load(e) EXCEPT !.control = t]))

\* The control of editor e loses the focus.
EvtKillFocus(e) ==
    Store(e, "kill_focus", "update_object",
          update_object(factory[e], trait[e], Load(e)))

\* The user presses Enter in the control of editor e.
EvtTextEnter(e) ==
    Store(e, "enter",
          IF EnterBound(factory[e]) THEN "update_object" ELSE "none",
          IF EnterBound(factory[e])
          THEN update_object(factory[e], trait[e], Load(e))
          ELSE Load(e))

\* A failure to set the object trait of editor e is reported to the editor.
EvtError(e) ==
    Store(e, "error", "error", error(Load(e)))

\* The object trait of editor e is given the value v from outside the editor.
ExternalChange(e, v) ==
    /\ v # value[e]
    /\ Store(e, "change", "update_editor",
             _update_editor(factory[e], trait[e],
                            [Load(e) EXCEPT !.value = v]))

NextForm ==
    \/ \E e \in Editors, t \in TypedTexts : EvtText(e, t)
    \/ \E e \in Editors : EvtKillFocus(e)
    \/ \E e \in Editors : EvtTextEnter(e)
    \/ \E e \in Editors : EvtError(e)
    \/ \E e \in Editors : \E v \in TraitValues(trait[e]) : ExternalChange(e, v)

SpecForm == InitForm /\ [][NextForm]_vars

\* Every configuration of a text editor: SimpleEditor (base_style 0) or
\* CustomEditor (base_style wx.TE_MULTILINE) with every factory setting.
EditorFactories ==
    [base_style : {"0", "TE_MULTILINE"}, multi_line : BOOLEAN,
     password : BOOLEAN, auto_set : BOOLEAN, enter_set : BOOLEAN,
     evaluate : {"identity", "int", "list"}, mapping : Mappings]

\* The types of the object trait an editor is bound to.
TraitTypes == {"Any", "Int", "Str"}

\* SimpleEditor.init for one editor, in any configuration.
InitEditor ==
    /\ PointerIdle
    /\ LayoutIdle
    /\ factory \in [{1} -> EditorFactories]
    /\ trait \in [{1} -> TraitTypes]
    /\ value \in [{1} -> TraitValues(trait[1])]
    /\ control = [e \in {1} |-> str_value(value[e])]
    /\ _no_update = [e \in {1} |-> FALSE]
    /\ _error = [e \in {1} |-> FALSE]
    /\ errorColor = [e \in {1} |-> "Default"]
    /\ errors = 0
    /\ failed = {}
    /\ out = NoHandler
    /\ dialog = NoDialog

SpecEditor == InitEditor /\ [][NextForm]_vars

(***************************************************************************)
(* The dialog of test_tuple_editor.py: a tuple of two Int, each edited in  *)
(* a text field                                                            *)
(***************************************************************************)
Fields == {1, 2}

\* The texts entered in the fields.
DialogTexts == {"4", "6", "x"}

\* A faulty variant of DialogFactory: the fields commit on focus loss only.
DialogFactoryNoAutoSet ==
    [base_style |-> "0", multi_line |-> TRUE, password |-> FALSE,
     auto_set |-> FALSE, enter_set |-> FALSE, evaluate |-> "int",
     mapping |-> NoMapping]

\* The factory of the editor of a field: the defaults of the text editor
\* factory, with int to evaluate the text of an Int.
DialogFactory ==
    [base_style |-> "0", multi_line |-> TRUE, password |-> FALSE,
     auto_set |-> TRUE, enter_set |-> FALSE, evaluate |-> "int",
     mapping |-> NoMapping]

\* val.edit_traits(): the dialog is open, its fields show the tuple.
InitDialog ==
    /\ PointerIdle
    /\ LayoutIdle
    /\ factory = [e \in Fields |-> DialogFactory]
    /\ trait = [e \in Fields |-> "Int"]
    /\ value \in [Fields -> TraitValues("Int")]
    /\ control = [e \in Fields |-> str_value(value[e])]
    /\ _no_update = [e \in Fields |-> FALSE]
    /\ _error = [e \in Fields |-> FALSE]
    /\ errorColor = [e \in Fields |-> "Default"]
    /\ errors = 0
    /\ failed = {}
    /\ out = NoHandler
    /\ dialog = [open |-> TRUE, before |-> <<value[1], value[2]>>,
                 entered |-> [e \in Fields |-> ""],
                 focusLost |-> FALSE, result |-> <<>>]

\* lineedits[e].setText( t ); lineedits[e].textEdited.emit( t ): the text of
\* field e is edited to t and the text-edited notification is delivered.
FieldEdited(e, t) ==
    /\ dialog.open
    /\ StoreEditor(e, "text",
                   IF TextBound(factory[e]) THEN "update_object" ELSE "none",
                   EvtTextHandler(factory[e], trait[e],
                                  [Load(e) EXCEPT !.control = t]))
    /\ dialog' = [dialog EXCEPT !.entered[e] = t]

\* Field e loses the focus.
FieldKillFocus(e) ==
    /\ dialog.open
    /\ StoreEditor(e, "kill_focus", "update_object",
                   update_object(factory[e], trait[e], Load(e)))
    /\ dialog' = [dialog EXCEPT !.focusLost = TRUE]

\* press_ok_button( ui ): the dialog is closed; no field loses the focus.
\* val.tup is the tuple of the values of the fields.
press_ok_button ==
    /\ dialog.open
    /\ OtherThanForm
    /\ dialog' = [dialog EXCEPT !.open = FALSE,
                                !.result = <<value[1], value[2]>>]
    /\ out' = [NoHandler EXCEPT !.event = "ok", !.handler = "none"]
    /\ UNCHANGED <<factory, trait, control, value, _no_update, _error,
                   errorColor, errors, failed>>

NextDialog ==
    \/ \E e \in Fields, t \in DialogTexts : FieldEdited(e, t)
    \/ \E e \in Fields : FieldKillFocus(e)
    \/ press_ok_button

SpecDialog == InitDialog /\ [][NextDialog]_vars

(***************************************************************************)
(* Claims about the read-only text editor (SpecPointer)                    *)
(***************************************************************************)
PointerEvents == {"enter", "leave", "down", "up"}

\* C1: from the initial state of a read-only editor with a view, once the
\* events enter, down, up have been handled in that order, the background
\* colour is HoverColor and the view has been opened exactly once.
C1_EnterDownUpHovered ==
    (view /\ trace = <<"enter", "down", "up">>)
        => (bg = HoverColor /\ activations = 1)

\* C2: from the initial state of a read-only editor with a view, right after
\* the events enter, down, leave, up have been handled in that order, the
\* background colour is the parent's, the pressed flag and the capture are
\* both clear, and the view has not been opened.
C2_EnterDownLeaveUpIdle ==
    (view /\ trace = <<"enter", "down", "leave", "up">> /\ last = "up")
        => /\ bg = parentBg
           /\ ~_down
           /\ captures = 0
           /\ activations = 0

C2_Witness ==
    view /\ trace = <<"enter", "down", "leave", "up">> /\ last = "up"

\* C4: whenever a button-up handler has just returned, the control holds no
\* pointer capture, whatever events preceded it.
C4_NoCaptureAfterUp ==
    last = "up" => captures = 0

\* C5: when the control has lost the focus, or the editor has been disposed,
\* no capture is left held and the pressed flag is reset.
C5_NoDanglingCapture ==
    last \in {"kill_focus", "dispose"} => (captures = 0 /\ ~_down)

\* C9: whenever a pointer handler has just returned, the background colour
\* last set is the colour of the state it leaves behind (parent's colour when
\* the pointer is outside, DownColor when inside and pressed, HoverColor
\* when inside and not pressed) and a repaint was requested with it.
C9_ColourMatchesState ==
    last \in PointerEvents =>
        /\ ~_in_window => bg = parentBg
        /\ (_in_window /\ _down) => bg = DownColor
        /\ (_in_window /\ ~_down) => bg = HoverColor
        /\ painted = bg

\* C14: in any sequence of pointer events, the view is opened only by the
\* handler of a button-up that finds a press in progress and the pointer
\* inside the control, and once for that press: the handler ends the press.
\* A button-up that finds no press in progress, or the pointer outside,
\* opens nothing.
C14_ActivateOnlyOnRelease ==
    [][/\ activations' # activations =>
              /\ trace' = Append(trace, "up")
              /\ _down /\ _in_window
              /\ activations' = activations + 1
              /\ ~_down'
       /\ (trace' = Append(trace, "up") /\ (~_down \/ ~_in_window)) =>
              activations' = activations]_vars

\* One press was released inside the control, and a second button-up
\* followed it.
C14_Witness ==
    trace = <<"enter", "down", "up", "up">> /\ activations = 1

\* C19: a button-down starts a press (pressed flag set, capture acquired)
\* only while the pointer is inside the control: right after a button-down
\* handler that left the pressed flag set or a capture held, the
\* pointer-inside flag is set.
C19_PressOnlyInside ==
    (last = "down" /\ (_down \/ captures > 0)) => _in_window

\* C22: in any sequence of pointer events, the control has not released the
\* capture more often than it acquired it, and the pressed flag is set
\* exactly when the control holds the capture.
C22_PressedIffCaptured ==
    /\ captures >= 0
    /\ _down <=> captures > 0

(***************************************************************************)
(* Claims about ImageText (SpecLayout)                                     *)
(***************************************************************************)
\* textBounds is the value _get_text_bounds returned for the current theme,
\* text size and client size.
BoundsCurrent == lop \in {"SetLabel", "SetFont", "paint"}

\* The numerator of the vertical position.
VNumerator ==
    client[2] + theme.slice.xtop + theme.content.top - theme.slice.xtop
        - theme.slice.xbottom - _text_size[2]

\* The numerator of the centred horizontal position.
HNumerator ==
    client[1] - theme.slice.xleft - theme.slice.xright - _text_size[1]

\* q is n / 2 rounded toward minus infinity.
IsFloorHalf(q, n) == 2 * q <= n /\ n < 2 * q + 2

\* q is n / 2 rounded toward zero.
IsTruncHalf(q, n) ==
    IF n >= 0 THEN 2 * q <= n /\ n < 2 * q + 2
    ELSE n <= 2 * q /\ 2 * q - 2 < n

\* C6 (as stated): the vertical position returned is label.top plus the
\* numerator divided by 2 truncating toward zero, also when the numerator is
\* negative and odd.
C6_VerticalTruncates ==
    BoundsCurrent => IsTruncHalf(textBounds[2] - theme.label.top, VNumerator)

\* C6 (amended): the vertical position returned is label.top plus the
\* numerator divided by 2 rounding toward minus infinity, also when the
\* numerator is negative and odd.
C6_VerticalFloors ==
    BoundsCurrent => IsFloorHalf(textBounds[2] - theme.label.top, VNumerator)

C6_Witness ==
    BoundsCurrent /\ VNumerator < 0 /\ VNumerator % 2 = 1

\* The example of C10: an all-zero theme, centred, text size (10, 4),
\* control size (30, 10).
C10_Example ==
    /\ \A n \in {"left", "right", "top", "bottom", "xleft", "xright",
                 "xtop", "xbottom"} : theme.slice[n] = 0
    /\ \A n \in {"left", "right", "top", "bottom"} : theme.content[n] = 0
    /\ theme.label.left = 0 /\ theme.label.top = 0
    /\ theme.alignment = "center"
    /\ _text_size[1] = 10 /\ _text_size[2] = 4
    /\ client = <<30, 10>>

\* C10: the horizontal position returned is label.left plus xleft +
\* content.left (left), xleft + content.left + 4 + the integer half (rounded
\* down) of controlWidth - xleft - xright - textWidth (center), or
\* controlWidth - textWidth - xright - content.right (right); the width and
\* height returned are the measured text width and height; an all-zero
\* theme, centred, with text size (10, 4) in a 30 x 10 control gives x = 14
\* and y = 3.
C10_HorizontalPosition ==
    BoundsCurrent =>
        LET x == textBounds[1] - theme.label.left
            measured == GetFullTextExtent(
                            IF IsBlank(label) THEN <<"M">> ELSE label, font)
        IN /\ theme.alignment = "left" =>
                  x = theme.slice.xleft + theme.content.left
           /\ theme.alignment = "center" =>
                  IsFloorHalf(x - theme.slice.xleft - theme.content.left - 4,
                              HNumerator)
           /\ theme.alignment = "right" =>
                  x = client[1] - _text_size[1] - theme.slice.xright
                          - theme.content.right
           /\ textBounds[3] = measured[1]
           /\ textBounds[4] = measured[2]
           /\ C10_Example => (textBounds[1] = 14 /\ textBounds[2] = 3)

C10_Witness == BoundsCurrent /\ C10_Example

\* The text the control measures: the label, or "M" when it is blank.
MeasuredText == IF IsBlank(label) THEN <<"M">> ELSE label

\* The two arguments of each max of the minimum size: the outer frame and
\* the inner frame with the text, the content padding and the room.
OuterWidth == theme.slice.left + theme.slice.right
OuterHeight == theme.slice.top + theme.slice.bottom
InnerWidth ==
    theme.slice.xleft + theme.slice.xright + TextWidth(MeasuredText, font)
        + theme.content.left + theme.content.right + 8
InnerHeight ==
    theme.slice.xtop + theme.slice.xbottom
        + GetFullTextExtent(MeasuredText, font)[2]
        + theme.content.top + theme.content.bottom + 4

\* m is the larger of a and b.
IsMax(m, a, b) == m >= a /\ m >= b /\ m \in {a, b}

\* C11: the minimum size the control has set is, for every theme and
\* measured text size, width = max(slice.left + slice.right, slice.xleft +
\* slice.xright + textWidth + content.left + content.right + 8) and height =
\* max(slice.top + slice.bottom, slice.xtop + slice.xbottom + textHeight +
\* content.top + content.bottom + 4).
C11_MinSizeFormula ==
    /\ IsMax(minSize[1], OuterWidth, InnerWidth)
    /\ IsMax(minSize[2], OuterHeight, InnerHeight)

\* The outer frame decides the height and the text the width, after a call
\* that set the minimum size.
C11_Witness ==
    /\ lop \in {"SetLabel", "SetFont"}
    /\ OuterHeight > InnerHeight
    /\ InnerWidth > OuterWidth

\* C17: for all non-negative margins, any text size and any alignment, the
\* minimum size is at least (slice.left + slice.right, slice.top +
\* slice.bottom), componentwise.
C17_MinSizeCoversFrame ==
    /\ \A n \in OuterFields \cup InnerFields : theme.slice[n] >= 0
    /\ minSize[1] >= OuterWidth
    /\ minSize[2] >= OuterHeight

\* The outer frame is wider than the text with its insets.
C17_Witness ==
    /\ lop \in {"SetLabel", "SetFont"}
    /\ OuterWidth > InnerWidth
    /\ minSize[1] = OuterWidth

\* The metrics of the literal label "M" in the current font.
MetricsOfM == GetFullTextExtent(<<"M">>, font)

\* C15: with the same theme and control size, a label that is empty or all
\* white space gives the minimum size and the text bounds that the label "M"
\* gives.
C15_BlankLabelAsM ==
    IsBlank(label) =>
        /\ minSize = GetMinSize(theme, MetricsOfM)
        /\ BoundsCurrent =>
               textBounds = _get_text_bounds(theme, MetricsOfM, client)

\* A label of white space only has been set, in a font where it is not as
\* wide as "M".
C15_Witness ==
    /\ IsBlank(label) /\ label # <<>>
    /\ lop = "SetLabel"
    /\ TextWidth(label, font) # TextWidth(<<"M">>, font)

\* The metrics of the current label in the current font.
CurrentMetrics == GetFullTextExtent(MeasuredText, font)

\* C16: after any sequence of SetLabel, SetFont, GetMinSize and paint
\* operations, a non-empty metrics slot holds the metrics of the current
\* label (of "M" if it is blank) in the current font, and the minimum size
\* and the text bounds are those of these metrics, never of an earlier label
\* or font.
C16_CacheCurrent ==
    /\ _text_size # NoSize => _text_size = CurrentMetrics
    /\ minSize = GetMinSize(theme, CurrentMetrics)
    /\ BoundsCurrent =>
           /\ textBounds[3] = CurrentMetrics[1]
           /\ textBounds[4] = CurrentMetrics[2]

\* The font was changed, then the label, and the slot is filled.
C16_Witness ==
    /\ font = "large" /\ lop = "SetLabel" /\ label = <<"i", "M">>
    /\ _text_size # NoSize

\* The text widths the toolkit can measure.
TextWidths == {TextWidth(t, f) : t \in Labels \ {<<>>}, f \in Fonts}

\* C20: with the theme and all other inputs fixed, the horizontal position
\* of left-aligned text is the same for every control width, and that of
\* right-aligned text is strictly smaller for a wider text.
C20_HorizontalMonotone ==
    BoundsCurrent =>
        /\ theme.alignment = "left" =>
               \A w \in ClientWidths :
                   _get_text_bounds(theme, _text_size, <<w, client[2]>>)[1]
                       = textBounds[1]
        /\ theme.alignment = "right" =>
               \A w \in TextWidths :
                   LET wider == [_text_size EXCEPT ![1] = w]
                       x == _get_text_bounds(theme, wider, client)[1]
                   IN /\ w > _text_size[1] => x < textBounds[1]
                      /\ w < _text_size[1] => x > textBounds[1]

\* Right-aligned text has been placed, and narrower and wider texts exist.
C20_Witness ==
    /\ BoundsCurrent
    /\ theme.alignment = "right"
    /\ \E w \in TextWidths : w > _text_size[1]
    /\ \E w \in TextWidths : w < _text_size[1]

(***************************************************************************)
(* Claims about the editable text editors (SpecForm)                       *)
(***************************************************************************)
\* C3: for any number of editors on one form and any interleaving of their
\* events, the form's error counter equals the number of editors whose
\* error flag is set; it is never negative, and it is 0 once two editors
\* that both failed have both resolved.
C3_ErrorCounter ==
    /\ errors = Cardinality({e \in Editors : _error[e]})
    /\ errors >= 0
    /\ (Cardinality(failed) >= 2 /\ \A e \in Editors : ~_error[e])
           => errors = 0

C3_Witness ==
    Cardinality(failed) >= 2 /\ \A e \in Editors : ~_error[e]

C8_RejectedCommit ==
    [][\A e \in Editors :
          /\ (out'.editor = e /\ out'.handler = "update_object"
                  /\ out'.rejected)
                 => /\ ~out'.raised
                    /\ _error'[e]
                    /\ errors' = errors + (IF _error[e] THEN 0 ELSE 1)
          /\ (_error[e] /\ ~_error'[e])
                 => /\ out'.editor = e
                    /\ \/ out'.handler = "update_editor"
                       \/ /\ out'.handler = "update_object"
                          /\ out'.writes > 0
                          /\ ~out'.rejected]_vars

C8_Witness ==
    out.handler = "update_object" /\ out.rejected /\ out.hadError

(***************************************************************************)
(* Claims about one editable text editor in any configuration (SpecEditor) *)
(***************************************************************************)
\* C18: after every handler of the editable text editor (error,
\* update_object, update_editor) has returned, the background is in the
\* error colour exactly when the editor's error flag is set, and the handler
\* that clears the flag is the one that puts the background in the OK colour.
C18_ErrorDisplay ==
    [][\A e \in Editors :
          /\ (errorColor'[e] = "ErrorColor") <=> _error'[e]
          /\ (_error[e] /\ ~_error'[e]) =>
                 /\ out'.editor = e
                 /\ out'.handler \in {"update_object", "update_editor"}
                 /\ errorColor[e] = "ErrorColor"
                 /\ errorColor'[e] = "OKColor"]_vars

\* update_editor has cleared an error and its colour.
C18_Witness ==
    /\ out.handler = "update_editor" /\ out.hadError
    /\ ~_error[out.editor]
    /\ errorColor[out.editor] = "OKColor"

\* The control is single-line: it is multi-line only when its base style is
\* multi-line, multi_line is on and password is off.
SingleLine(f) ==
    ~(f.base_style = "TE_MULTILINE" /\ f.multi_line /\ ~f.password)

\* C12: the editor attempts a write of the coerced value to the object trait
\* when the control loses the focus, in every configuration; when the user
\* changes the text, if and only if auto_set is on; when the user presses
\* Enter, if and only if enter_set is on and the control is single-line; and
\* on no other event, which writes nothing either.
C12_CommitEvents ==
    out.event # "init" =>
        LET f == factory[out.editor]
            commits == IF out.event = "kill_focus" THEN TRUE
                       ELSE IF out.event = "text" THEN f.auto_set
                       ELSE IF out.event = "enter"
                       THEN f.enter_set /\ SingleLine(f)
                       ELSE FALSE
        IN /\ out.attempts = IF commits THEN 1 ELSE 0
           /\ ~commits => out.writes = 0

\* Enter was pressed in a multi-line control whose factory has enter_set on.
C12_Witness ==
    /\ out.event = "enter" /\ out.attempts = 0
    /\ factory[out.editor].enter_set
    /\ ~SingleLine(factory[out.editor])

\* The value to commit for the text t: evaluate(t), or t if evaluate raises,
\* replaced by its entry in the mapping if it can be hashed and is a key.
CoercedValue(f, t) ==
    LET v == IF EvaluateRaises(f.evaluate, t) THEN StrVal(t)
             ELSE Evaluate(f.evaluate, t)
    IN IF Hashable(v) /\ v \in DOMAIN f.mapping THEN f.mapping[v] ELSE v

\* C13: the value the editor commits for the text t in the control is
\* mapping[v] when v is a key of the mapping and v otherwise, where v is
\* evaluate(t), or t unchanged if evaluate raises; a v that cannot be hashed
\* is used as it is.  The commit does not raise, and the error flag is set
\* after it only if the object trait rejected the value.
C13_CoercedValue ==
    out.attempts > 0 =>
        LET e == out.editor
        IN /\ out.tried = CoercedValue(factory[e], control[e])
           /\ ~out.raised
           /\ _error[e] <=> out.rejected
           /\ out.rejected <=> ~Accepts(trait[e], out.tried)

\* A text that could not be evaluated was committed through the mapping.
C13_Witness ==
    /\ out.attempts > 0 /\ out.writes > 0
    /\ EvaluateRaises(factory[out.editor].evaluate, control[out.editor])
    /\ StrVal(control[out.editor]) \in DOMAIN factory[out.editor].mapping

\* A value that cannot be hashed was committed as it is.
C13_UnhashableCommitted ==
    /\ out.attempts > 0 /\ out.writes > 0
    /\ ~Hashable(out.tried)
    /\ value[out.editor] = out.tried

\* C23: while update_editor rewrites the control after an external change,
\* the text-changed event that re-enters update_object writes nothing to the
\* object trait and changes neither the error flag nor the error counter;
\* update_editor rewrites the control only when the value derived from the
\* text in the control differs from the value of the object trait; and the
\* suppress flag is false whenever no update_editor call is in progress.
C23_EchoSuppressed ==
    [][\A e \in Editors :
          /\ ~_no_update'[e]
          /\ (out'.editor = e /\ out'.handler = "update_editor") =>
                 /\ out'.attempts = 0 /\ out'.writes = 0
                 /\ out'.echoQuiet
                 /\ out'.sets > 0 =>
                        CoercedValue(factory[e], control[e]) # value'[e]
                 /\ out'.sets = 0 => control'[e] = control[e]]_vars

\* update_editor has rewritten the control of an editor in error whose
\* text-changed events are bound to update_object.
C23_Witness ==
    /\ out.handler = "update_editor" /\ out.sets > 0 /\ out.hadError
    /\ factory[out.editor].auto_set

====
